---- MODULE Spec2Model ----
(***************************************************************************)
(* A model of the persistent rope of hhhhhhhhhn/rope (main.go).            *)
(*                                                                         *)
(* The heap is a sequence of Rope structs; a *Rope is an index into it     *)
(* and 0 is the nil pointer.  A []T field is Nil (the nil slice) or        *)
(* Some(s) for a non-nil slice holding the elements s: the code tells a    *)
(* Leaf from an Internal node by r.value != nil, and an empty non-nil      *)
(* slice is a Leaf.  Slices built by the code are never written after the  *)
(* node holding them is returned, so a slice is modelled by its elements.  *)
(* Elements are integers: 1..n in the initial rope, -1, -2, .. in          *)
(* insertions, and 0 is the zero value that make() fills a buffer with.    *)
(***************************************************************************)
EXTENDS Integers, Sequences, FiniteSets, TLC

\* Bounds of the model.
MaxLen == 8         \* longest sequence NewRope is first called with
MaxIns == 2         \* longest insertion
MaxOps == 2         \* Insert, Remove and Slice calls of a run
MaxRebalance == 1   \* Rebalance calls of a run

\* testSettings of the test file; Rebalance 1.001 is RebalanceNum / RebalanceDen.
testSettings ==
    [SplitLength |-> 4, JoinLength |-> 2, RebalanceNum |-> 1001, RebalanceDen |-> 1000]

VARIABLES
    heap,       \* the allocated Rope structs
    ropes,      \* the handles (*Rope) the caller has obtained
    settings,   \* the *Settings every rope of the run shares
    last,       \* the last call: its operation, receiver, arguments and result
    prevHeap,   \* the heap as it was before the last call
    nops,       \* Insert, Remove and Slice calls made so far
    nreb,       \* Rebalance calls made so far
    panicked    \* a call ended in a run-time panic

vars == <<heap, ropes, settings, last, prevHeap, nops, nreb, panicked>>

---------------------------------------------------------------------------
\* Slices and the builtins make and copy.

Nil == <<>>
Some(s) == <<s>>

\* make([]T, n)
Make(n) == [i \in 1..n |-> 0]

\* s[lo:hi]
GoSlice(s, lo, hi) == SubSeq(s, lo + 1, hi)

\* copy(buf[lo:hi], src) on the backing buffer buf: min(hi-lo, len(src)) elements.
CopyInto(buf, lo, hi, src) ==
    [i \in 1..Len(buf) |->
        IF i > lo /\ i <= hi /\ i - lo <= Len(src) THEN src[i - lo] ELSE buf[i]]

\* The zero Rope struct, &Rope[T]{settings: ...}.
ZeroRope == [value |-> Nil, length |-> 0, left |-> 0, right |-> 0]

---------------------------------------------------------------------------
\* func (r *Rope[T]) Copy(dst []T), with dst the window buf[lo:hi].
RECURSIVE Copy(_, _, _, _, _)
Copy(h, r, buf, lo, hi) ==
    IF h[r].value # Nil
    THEN [ok |-> TRUE, buf |-> CopyInto(buf, lo, hi, h[r].value[1])]
    ELSE LET l  == Copy(h, h[r].left, buf, lo, hi)
             ll == h[h[r].left].length
         IN  IF ~l.ok \/ ll > hi - lo     \* dst[r.left.length:] out of range
             THEN [ok |-> FALSE, buf |-> buf]
             ELSE Copy(h, h[r].right, l.buf, lo + ll, hi)

\* func (r *Rope[T]) Value() []T
Value(h, r) == Copy(h, r, Make(h[r].length), 0, h[r].length)

\* func bound(start, end, length int)
bound(start, end, length) ==
    << IF start < 0 THEN 0 ELSE IF start > length THEN length ELSE start,
       IF end < 0 THEN 0 ELSE IF end > length THEN length ELSE end >>

\* func NewRope and func (r *Rope[T]) adjust()
RECURSIVE NewRope(_, _), adjust(_, _)
NewRope(h, v) ==
    LET id == Len(h) + 1
        h1 == Append(h, [value |-> Some(v), length |-> Len(v), left |-> 0, right |-> 0])
        a  == adjust(h1, id)
    IN  [heap |-> a.heap, id |-> id, ok |-> a.ok]

\* adjust without its join step.
adjustNoJoin(h, r) ==
    LET n == h[r] IN
    IF n.value # Nil /\ n.length > settings.SplitLength
    THEN LET v  == n.value[1]
             l  == NewRope(h, GoSlice(v, 0, n.length \div 2))
             rr == NewRope(l.heap, GoSlice(v, n.length \div 2, Len(v)))
         IN  [heap |-> [rr.heap EXCEPT ![r].left = l.id, ![r].right = rr.id,
                                       ![r].value = Nil],
              ok |-> l.ok /\ rr.ok]
    ELSE [heap |-> h, ok |-> TRUE]

adjust(h, r) ==
    LET n == h[r] IN
    IF n.value # Nil /\ n.length > settings.SplitLength
    THEN LET v  == n.value[1]
             l  == NewRope(h, GoSlice(v, 0, n.length \div 2))
             rr == NewRope(l.heap, GoSlice(v, n.length \div 2, Len(v)))
         IN  [heap |-> [rr.heap EXCEPT ![r].left = l.id, ![r].right = rr.id,
                                       ![r].value = Nil],
              ok |-> l.ok /\ rr.ok]
    ELSE IF n.value = Nil /\ n.length < settings.JoinLength
    THEN LET ll == h[n.left].length
             b0 == Make(n.length)
             c1 == Copy(h, n.left, b0, 0, n.length)
             c2 == Copy(h, n.right, c1.buf, 0, ll)      \* r.value[:r.left.length]
         IN  IF ~c1.ok \/ ll > n.length \/ ~c2.ok
             THEN [heap |-> h, ok |-> FALSE]
             ELSE [heap |-> [h EXCEPT ![r].value = Some(c2.buf), ![r].left = 0,
                                      ![r].right = 0],
                   ok |-> TRUE]
    ELSE [heap |-> h, ok |-> TRUE]

\* func (r *Rope[T]) Remove(start, end int) *Rope[T]
RECURSIVE Remove(_, _, _, _)
Remove(h, r, start, end) ==
    IF start = end THEN [heap |-> h, id |-> r, ok |-> TRUE]
    ELSE IF h[r].value # Nil
    THEN LET v   == h[r].value[1]
             nv0 == Make(h[r].length - (end - start))
             nv1 == CopyInto(nv0, 0, Len(nv0), GoSlice(v, 0, start))
             nv2 == CopyInto(nv1, start, Len(nv1), GoSlice(v, end, Len(v)))
         IN  NewRope(h, nv2)
    ELSE LET id == Len(h) + 1
             h1 == Append(h, ZeroRope)
             ll == h[h[r].left].length
             lb == bound(start, end, ll)
             l  == Remove(h1, h[r].left, lb[1], lb[2])
             rb == bound(start - ll, end - ll, h[h[r].right].length)
             rr == Remove(l.heap, h[r].right, rb[1], rb[2])
             h2 == [rr.heap EXCEPT ![id].left = l.id, ![id].right = rr.id,
                        ![id].length = rr.heap[l.id].length + rr.heap[rr.id].length]
             a  == adjust(h2, id)
         IN  [heap |-> a.heap, id |-> id, ok |-> l.ok /\ rr.ok /\ a.ok]

\* Insert that puts the insertion after the receiver's elements.
RECURSIVE InsertAppends(_, _, _, _)
InsertAppends(h, r, index, insertion) ==
    IF h[r].value # Nil
    THEN LET v   == h[r].value[1]
             k   == Len(insertion)
             nv0 == Make(h[r].length + k)
             nv1 == CopyInto(nv0, 0, Len(nv0), GoSlice(v, 0, index))
             nv2 == CopyInto(nv1, Len(v), Len(nv1), insertion)
             nv3 == CopyInto(nv2, index, Len(nv2), GoSlice(v, index, Len(v)))
         IN  NewRope(h, nv3)
    ELSE LET id == Len(h) + 1
             h1 == Append(h, [value |-> Nil, length |-> h[r].length + Len(insertion),
                              left |-> h[r].left, right |-> h[r].right])
             ll == h[h[r].left].length
         IN  IF index < ll
             THEN LET l == InsertAppends(h1, h[r].left, index, insertion)
                  IN  [heap |-> [l.heap EXCEPT ![id].left = l.id], id |-> id, ok |-> l.ok]
             ELSE LET rr == InsertAppends(h1, h[r].right, index - ll, insertion)
                  IN  [heap |-> [rr.heap EXCEPT ![id].right = rr.id], id |-> id,
                       ok |-> rr.ok]

\* Insert that updates an Internal receiver itself (changed := r).
RECURSIVE InsertInPlace(_, _, _, _)
InsertInPlace(h, r, index, insertion) ==
    IF h[r].value # Nil
    THEN LET v   == h[r].value[1]
             k   == Len(insertion)
             nv0 == Make(h[r].length + k)
             nv1 == CopyInto(nv0, 0, Len(nv0), GoSlice(v, 0, index))
             nv2 == CopyInto(nv1, index, Len(nv1), insertion)
             nv3 == CopyInto(nv2, index + k, Len(nv2), GoSlice(v, index, Len(v)))
         IN  NewRope(h, nv3)
    ELSE LET id == r
             h1 == [h EXCEPT ![r].length = h[r].length + Len(insertion)]
             ll == h[h[r].left].length
         IN  IF index < ll
             THEN LET l == InsertInPlace(h1, h[r].left, index, insertion)
                  IN  [heap |-> [l.heap EXCEPT ![id].left = l.id], id |-> id, ok |-> l.ok]
             ELSE LET rr == InsertInPlace(h1, h[r].right, index - ll, insertion)
                  IN  [heap |-> [rr.heap EXCEPT ![id].right = rr.id], id |-> id,
                       ok |-> rr.ok]

\* Insert that gives the rebuilt Internal node the receiver's length.
RECURSIVE InsertStaleLength(_, _, _, _)
InsertStaleLength(h, r, index, insertion) ==
    IF h[r].value # Nil
    THEN LET v   == h[r].value[1]
             k   == Len(insertion)
             nv0 == Make(h[r].length + k)
             nv1 == CopyInto(nv0, 0, Len(nv0), GoSlice(v, 0, index))
             nv2 == CopyInto(nv1, index, Len(nv1), insertion)
             nv3 == CopyInto(nv2, index + k, Len(nv2), GoSlice(v, index, Len(v)))
         IN  NewRope(h, nv3)
    ELSE LET id == Len(h) + 1
             h1 == Append(h, [value |-> Nil, length |-> h[r].length,
                              left |-> h[r].left, right |-> h[r].right])
             ll == h[h[r].left].length
         IN  IF index < ll
             THEN LET l == InsertStaleLength(h1, h[r].left, index, insertion)
                  IN  [heap |-> [l.heap EXCEPT ![id].left = l.id], id |-> id, ok |-> l.ok]
             ELSE LET rr == InsertStaleLength(h1, h[r].right, index - ll, insertion)
                  IN  [heap |-> [rr.heap EXCEPT ![id].right = rr.id], id |-> id,
                       ok |-> rr.ok]

\* func (r *Rope[T]) Insert(index int, insertion []T) *Rope[T]
RECURSIVE Insert(_, _, _, _)
Insert(h, r, index, insertion) ==
    IF h[r].value # Nil
    THEN LET v   == h[r].value[1]
             k   == Len(insertion)
             nv0 == Make(h[r].length + k)
             nv1 == CopyInto(nv0, 0, Len(nv0), GoSlice(v, 0, index))
             nv2 == CopyInto(nv1, index, Len(nv1), insertion)
             nv3 == CopyInto(nv2, index + k, Len(nv2), GoSlice(v, index, Len(v)))
         IN  NewRope(h, nv3)
    ELSE LET id == Len(h) + 1
             h1 == Append(h, [value |-> Nil, length |-> h[r].length + Len(insertion),
                              left |-> h[r].left, right |-> h[r].right])
             ll == h[h[r].left].length
         IN  IF index < ll
             THEN LET l == Insert(h1, h[r].left, index, insertion)
                  IN  [heap |-> [l.heap EXCEPT ![id].left = l.id], id |-> id, ok |-> l.ok]
             ELSE LET rr == Insert(h1, h[r].right, index - ll, insertion)
                  IN  [heap |-> [rr.heap EXCEPT ![id].right = rr.id], id |-> id,
                       ok |-> rr.ok]

\* CopySlice that writes the right child at the start of dst.
RECURSIVE CopySliceAtZero(_, _, _, _, _, _, _)
CopySliceAtZero(h, r, buf, lo, hi, start, end) ==
    IF start = end THEN [ok |-> TRUE, buf |-> buf]
    ELSE IF h[r].value # Nil
    THEN LET v == h[r].value[1] IN
         IF 0 <= start /\ start <= end /\ end <= Len(v)
         THEN [ok |-> TRUE, buf |-> CopyInto(buf, lo, hi, GoSlice(v, start, end))]
         ELSE [ok |-> FALSE, buf |-> buf]   \* r.value[start:end] outside the slice
    ELSE LET ll == h[h[r].left].length
             lb == bound(start, end, ll)
             l  == CopySliceAtZero(h, h[r].left, buf, lo, hi, lb[1], lb[2])
             rb == bound(start - ll, end - ll, h[h[r].right].length)
             d  == lb[2] - lb[1]
         IN  IF ~l.ok \/ d < 0 \/ d > hi - lo    \* dst[leftEnd - leftStart:] out of range
             THEN [ok |-> FALSE, buf |-> buf]
             ELSE CopySliceAtZero(h, h[r].right, l.buf, lo, hi, rb[1], rb[2])

\* func (r *Rope[T]) CopySlice(dst []T, start, end int), dst the window buf[lo:hi].
RECURSIVE CopySlice(_, _, _, _, _, _, _)
CopySlice(h, r, buf, lo, hi, start, end) ==
    IF start = end THEN [ok |-> TRUE, buf |-> buf]
    ELSE IF h[r].value # Nil
    THEN LET v == h[r].value[1] IN
         IF 0 <= start /\ start <= end /\ end <= Len(v)
         THEN [ok |-> TRUE, buf |-> CopyInto(buf, lo, hi, GoSlice(v, start, end))]
         ELSE [ok |-> FALSE, buf |-> buf]   \* r.value[start:end] outside the slice
    ELSE LET ll == h[h[r].left].length
             lb == bound(start, end, ll)
             l  == CopySlice(h, h[r].left, buf, lo, hi, lb[1], lb[2])
             rb == bound(start - ll, end - ll, h[h[r].right].length)
             d  == lb[2] - lb[1]
         IN  IF ~l.ok \/ d < 0 \/ d > hi - lo    \* dst[leftEnd - leftStart:] out of range
             THEN [ok |-> FALSE, buf |-> buf]
             ELSE CopySlice(h, h[r].right, l.buf, lo + d, hi, rb[1], rb[2])

\* func (r *Rope[T]) Slice(start, end int) []T
Slice(h, r, start, end) == CopySlice(h, r, Make(end - start), 0, end - start, start, end)

\* func (r *Rope[T]) Length() int
Length(h, r) == h[r].length

\* float32(a) / float32(b) > r.settings.Rebalance.  A division by zero gives
\* +Inf (a > 0), which exceeds every ratio, or NaN (a = 0), which exceeds none.
\* The quotient is compared exactly: at the lengths of this model no float32
\* rounding changes the comparison.
ExceedsRatio(a, b) ==
    IF b = 0 THEN a > 0 ELSE a * settings.RebalanceDen > b * settings.RebalanceNum

\* Rebalance that rebuilds from the left child's value alone.
RECURSIVE RebalanceDropsRight(_, _)
RebalanceDropsRight(h, r) ==
    IF h[r].value # Nil THEN [heap |-> h, ok |-> TRUE]
    ELSE LET ll == h[h[r].left].length
             rl == h[h[r].right].length
         IN  IF ExceedsRatio(ll, rl) \/ ExceedsRatio(rl, ll)
             THEN LET v  == Value(h, h[r].left)
                      nr == NewRope(h, v.buf)
                  IN  IF ~v.ok \/ ~nr.ok THEN [heap |-> h, ok |-> FALSE]
                      ELSE [heap |-> [nr.heap EXCEPT ![r] = nr.heap[nr.id]], ok |-> TRUE]
             ELSE LET l  == RebalanceDropsRight(h, h[r].left)
                      rr == RebalanceDropsRight(l.heap, h[r].right)
                  IN  [heap |-> rr.heap, ok |-> l.ok /\ rr.ok]

\* Rebalance that never takes the rebuild branch.
RECURSIVE RebalanceRecurseOnly(_, _)
RebalanceRecurseOnly(h, r) ==
    IF h[r].value # Nil THEN [heap |-> h, ok |-> TRUE]
    ELSE LET ll == h[h[r].left].length
             rl == h[h[r].right].length
         IN  IF FALSE
             THEN LET v  == Value(h, r)
                      nr == NewRope(h, v.buf)
                  IN  IF ~v.ok \/ ~nr.ok THEN [heap |-> h, ok |-> FALSE]
                      ELSE [heap |-> [nr.heap EXCEPT ![r] = nr.heap[nr.id]], ok |-> TRUE]
             ELSE LET l  == RebalanceRecurseOnly(h, h[r].left)
                      rr == RebalanceRecurseOnly(l.heap, h[r].right)
                  IN  [heap |-> rr.heap, ok |-> l.ok /\ rr.ok]

\* Rebalance that rebuilds from the right child's value followed by the left's.
RECURSIVE RebalanceSwapsHalves(_, _)
RebalanceSwapsHalves(h, r) ==
    IF h[r].value # Nil THEN [heap |-> h, ok |-> TRUE]
    ELSE LET ll == h[h[r].left].length
             rl == h[h[r].right].length
         IN  IF ExceedsRatio(ll, rl) \/ ExceedsRatio(rl, ll)
             THEN LET vl == Value(h, h[r].left)
                      vr == Value(h, h[r].right)
                      v  == [ok |-> vl.ok /\ vr.ok, buf |-> vr.buf \o vl.buf]
                      nr == NewRope(h, v.buf)
                  IN  IF ~v.ok \/ ~nr.ok THEN [heap |-> h, ok |-> FALSE]
                      ELSE [heap |-> [nr.heap EXCEPT ![r] = nr.heap[nr.id]], ok |-> TRUE]
             ELSE LET l  == RebalanceSwapsHalves(h, h[r].left)
                      rr == RebalanceSwapsHalves(l.heap, h[r].right)
                  IN  [heap |-> rr.heap, ok |-> l.ok /\ rr.ok]

\* func (r *Rope[T]) Rebalance()
RECURSIVE Rebalance(_, _)
Rebalance(h, r) ==
    IF h[r].value # Nil THEN [heap |-> h, ok |-> TRUE]
    ELSE LET ll == h[h[r].left].length
             rl == h[h[r].right].length
         IN  IF ExceedsRatio(ll, rl) \/ ExceedsRatio(rl, ll)
             THEN LET v  == Value(h, r)
                      nr == NewRope(h, v.buf)
                  IN  IF ~v.ok \/ ~nr.ok THEN [heap |-> h, ok |-> FALSE]
                      ELSE [heap |-> [nr.heap EXCEPT ![r] = nr.heap[nr.id]], ok |-> TRUE]
             ELSE LET l  == Rebalance(h, h[r].left)
                      rr == Rebalance(l.heap, h[r].right)
                  IN  [heap |-> rr.heap, ok |-> l.ok /\ rr.ok]

\* func maxDepth of the test file
RECURSIVE maxDepth(_, _)
maxDepth(h, r) ==
    IF h[r].value # Nil THEN 1
    ELSE LET leftDepth  == maxDepth(h, h[r].left)
             rightDepth == maxDepth(h, h[r].right)
         IN  IF leftDepth > rightDepth THEN 1 + leftDepth ELSE 1 + rightDepth

---------------------------------------------------------------------------
\* The sequences the caller passes.
Iota(n) == [i \in 1..n |-> i]
Insertion(k) == [i \in 1..k |-> 0 - i]

NoCall == [op |-> "none", rope |-> 0, start |-> 0, end |-> 0, ins |-> <<>>,
           res |-> 0, out |-> <<>>]

\* Settings with a join of two non-empty leaves and the ratio of DefaultSettings.
wideSettings ==
    [SplitLength |-> 4, JoinLength |-> 3, RebalanceNum |-> 3, RebalanceDen |-> 2]

Init ==
    \E n \in 0..MaxLen : \E st \in {testSettings, wideSettings} :
        LET nr == NewRope(<<>>, Iota(n)) IN
        /\ settings = st
        /\ heap = nr.heap
        /\ ropes = {nr.id}
        /\ last = [NoCall EXCEPT !.op = "NewRope", !.ins = Iota(n), !.res = nr.id]
        /\ prevHeap = <<>>
        /\ nops = 0
        /\ nreb = 0
        /\ panicked = FALSE

InsertAct ==
    /\ nops < MaxOps /\ ~panicked
    /\ \E r \in ropes : \E index \in 0..heap[r].length : \E k \in 0..MaxIns :
          LET c == Insert(heap, r, index, Insertion(k)) IN
          /\ heap' = IF c.ok THEN c.heap ELSE heap
          /\ ropes' = IF c.ok THEN ropes \cup {c.id} ELSE ropes
          /\ panicked' = ~c.ok
          /\ last' = [NoCall EXCEPT !.op = "Insert", !.rope = r, !.start = index,
                                    !.ins = Insertion(k), !.res = IF c.ok THEN c.id ELSE 0]
    /\ prevHeap' = heap
    /\ nops' = nops + 1
    /\ UNCHANGED <<settings, nreb>>

RemoveAct ==
    /\ nops < MaxOps /\ ~panicked
    /\ \E r \in ropes : \E start \in 0..heap[r].length : \E end \in start..heap[r].length :
          LET c == Remove(heap, r, start, end) IN
          /\ heap' = IF c.ok THEN c.heap ELSE heap
          /\ ropes' = IF c.ok THEN ropes \cup {c.id} ELSE ropes
          /\ panicked' = ~c.ok
          /\ last' = [NoCall EXCEPT !.op = "Remove", !.rope = r, !.start = start,
                                    !.end = end, !.res = IF c.ok THEN c.id ELSE 0]
    /\ prevHeap' = heap
    /\ nops' = nops + 1
    /\ UNCHANGED <<settings, nreb>>

SliceAct ==
    /\ nops < MaxOps /\ ~panicked
    /\ \E r \in ropes : \E start \in 0..heap[r].length : \E end \in start..heap[r].length :
          LET c == Slice(heap, r, start, end) IN
          /\ panicked' = ~c.ok
          /\ last' = [NoCall EXCEPT !.op = "Slice", !.rope = r, !.start = start,
                                    !.end = end, !.out = IF c.ok THEN c.buf ELSE <<>>]
    /\ prevHeap' = heap
    /\ nops' = nops + 1
    /\ UNCHANGED <<heap, ropes, settings, nreb>>

RebalanceAct ==
    /\ nreb < MaxRebalance /\ ~panicked
    /\ \E r \in ropes :
          LET c == Rebalance(heap, r) IN
          /\ heap' = IF c.ok THEN c.heap ELSE heap
          /\ panicked' = ~c.ok
          /\ last' = [NoCall EXCEPT !.op = "Rebalance", !.rope = r, !.res = r]
    /\ prevHeap' = heap
    /\ nreb' = nreb + 1
    /\ UNCHANGED <<ropes, settings, nops>>

Next == InsertAct \/ RemoveAct \/ SliceAct \/ RebalanceAct

Spec == Init /\ [][Next]_vars

---------------------------------------------------------------------------
\* adjust on its own: the state of Remove just before changed.adjust(), an
\* Internal node (3) over two Leaf children (1, 2) of any lengths, under any
\* settings with SplitLength = 2 * JoinLength (as in DefaultSettings and
\* testSettings).
MaxJoin == 3

InitAdjust ==
    \E j \in 1..MaxJoin : \E a \in 0..(2 * j) : \E b \in 0..(2 * j) :
        /\ settings = [testSettings EXCEPT !.SplitLength = 2 * j, !.JoinLength = j]
        /\ heap = << [value |-> Some(Iota(a)), length |-> a, left |-> 0, right |-> 0],
                     [value |-> Some([i \in 1..b |-> a + i]), length |-> b,
                      left |-> 0, right |-> 0],
                     [value |-> Nil, length |-> a + b, left |-> 1, right |-> 2] >>
        /\ ropes = {3}
        /\ last = NoCall
        /\ prevHeap = <<>>
        /\ nops = 0
        /\ nreb = 0
        /\ panicked = FALSE

AdjustAct ==
    /\ last.op = "none" /\ ~panicked
    /\ LET c == adjust(heap, 3) IN
          /\ heap' = IF c.ok THEN c.heap ELSE heap
          /\ panicked' = ~c.ok
    /\ last' = [NoCall EXCEPT !.op = "adjust", !.rope = 3, !.res = 3]
    /\ prevHeap' = heap
    /\ UNCHANGED <<ropes, settings, nops, nreb>>

NextAdjust == AdjustAct

SpecAdjust == InitAdjust /\ [][NextAdjust]_vars

---------------------------------------------------------------------------
\* What the properties are stated with.

\* The sequence a rope represents.
Val(h, r) == Value(h, r).buf

\* The nodes of the tree under r.
RECURSIVE Reach(_, _)
Reach(h, r) ==
    IF h[r].value # Nil THEN {r}
    ELSE {r} \cup Reach(h, h[r].left) \cup Reach(h, h[r].right)

\* The nodes of every rope the caller holds.
Live == UNION {Reach(heap, r) : r \in ropes}

\* int(math.Log2(n))
RECURSIVE FloorLog2(_)
FloorLog2(n) == IF n <= 1 THEN 0 ELSE 1 + FloorLog2(n \div 2)

\* The receiver of the last call as it was before the call, and its result.
Pre == Val(prevHeap, last.rope)
Post == Val(heap, last.res)

\* The existing nodes the last call overwrote.
Overwritten == {n \in 1..Len(prevHeap) : heap[n] # prevHeap[n]}

---------------------------------------------------------------------------
\* C1: Remove excises exactly the half-open range [start, end): the value of
\* the returned rope is the receiver's value up to start followed by its
\* value from end on.
C1_RemoveExcises ==
    last.op = "Remove" =>
        /\ ~panicked
        /\ Post = SubSeq(Pre, 1, last.start) \o SubSeq(Pre, last.end + 1, Len(Pre))

\* C2: Insert splices the insertion in at the index: the value of the returned
\* rope is the receiver's value up to index, the insertion, and the rest.
C2_InsertSplices ==
    last.op = "Insert" =>
        /\ ~panicked
        /\ Post = SubSeq(Pre, 1, last.start) \o last.ins
                     \o SubSeq(Pre, last.start + 1, Len(Pre))

\* An Insert of a non-empty sequence into an Internal node whose touched leaf
\* was split (the tree grew deeper).
C2_Witness ==
    /\ last.op = "Insert" /\ ~panicked
    /\ prevHeap[last.rope].value = Nil
    /\ Len(last.ins) > 0
    /\ maxDepth(heap, last.res) > maxDepth(prevHeap, last.rope)

\* C3: Insert and Remove write no field of a node that existed before the
\* call, so every handle obtained before it has the Value and Length it had.
C3_Persistence ==
    last.op \in {"Insert", "Remove"} =>
        /\ \A n \in 1..Len(prevHeap) : heap[n] = prevHeap[n]
        /\ \A b \in ropes : b <= Len(prevHeap) =>
               /\ Val(heap, b) = Val(prevHeap, b)
               /\ Length(heap, b) = Length(prevHeap, b)

\* An Insert or Remove that returned a new rope sharing a node with its
\* receiver, which holds a different value.
C3_Witness ==
    /\ last.op \in {"Insert", "Remove"} /\ ~panicked
    /\ last.res # last.rope
    /\ Reach(heap, last.res) \cap Reach(heap, last.rope) # {}
    /\ Post # Val(heap, last.rope)

\* C4: Slice(a, b) is elements a..b-1 of Value().
C4_SliceIsValueRange ==
    last.op = "Slice" =>
        /\ ~panicked
        /\ last.out = SubSeq(Val(heap, last.rope), last.start + 1, last.end)

\* A Slice of an Internal node whose range starts inside the left child and
\* ends inside the right child.
C4_Witness ==
    /\ last.op = "Slice" /\ ~panicked
    /\ heap[last.rope].value = Nil
    /\ 0 < last.start
    /\ last.start < heap[heap[last.rope].left].length
    /\ heap[heap[last.rope].left].length < last.end
    /\ last.end < heap[last.rope].length

\* C5: Rebalance changes neither Value() nor Length() of its receiver.
C5_RebalanceKeepsValue ==
    last.op = "Rebalance" =>
        /\ ~panicked
        /\ Post = Pre
        /\ Length(heap, last.res) = Length(prevHeap, last.rope)

\* A Rebalance that kept the root as it was, recursed, and rebuilt a node
\* further down.
C5_Witness ==
    /\ last.op = "Rebalance" /\ ~panicked
    /\ heap[last.rope] = prevHeap[last.rope]
    /\ Overwritten \cap Reach(prevHeap, last.rope) # {}

\* C6 as stated: under testSettings, after Rebalance a rope of length >= 2
\* has maximum leaf depth at most floor(log2(length)).
C6_DepthAtMostLog2 ==
    (last.op = "Rebalance" /\ settings = testSettings /\ ~panicked
        /\ Length(heap, last.rope) >= 2) =>
        maxDepth(heap, last.rope) <= FloorLog2(Length(heap, last.rope))

\* C6 amended: under testSettings, after Rebalance a rope of length >= 2 has
\* maximum leaf depth at most floor(log2(length)) + 1.
C6_DepthAtMostLog2Plus1 ==
    (last.op = "Rebalance" /\ settings = testSettings /\ ~panicked
        /\ Length(heap, last.rope) >= 2) =>
        maxDepth(heap, last.rope) <= FloorLog2(Length(heap, last.rope)) + 1

\* A Rebalance under testSettings that rebuilt a rope of length >= 2 into a
\* shallower one.
C6_Witness ==
    /\ last.op = "Rebalance" /\ settings = testSettings /\ ~panicked
    /\ Length(heap, last.rope) >= 2
    /\ maxDepth(heap, last.rope) < maxDepth(prevHeap, last.rope)

\* C7: when adjust joins an Internal node shorter than JoinLength into a Leaf,
\* the new buffer is left's content followed by right's content.
C7_JoinFlattensInOrder ==
    (last.op = "adjust" /\ prevHeap[3].length < settings.JoinLength) =>
        /\ ~panicked
        /\ heap[3].value = Some(prevHeap[1].value[1] \o prevHeap[2].value[1])
        /\ heap[3].length = prevHeap[1].length + prevHeap[2].length

\* C8 as stated: a Rebalance that overwrites a node another handle still
\* references changes the Value() seen through some handle.
C8_RebalanceChangesAlias ==
    (last.op = "Rebalance" /\ ~panicked
        /\ \E b \in ropes \ {last.rope} : Overwritten \cap Reach(prevHeap, b) # {}) =>
        \E b \in ropes : Val(heap, b) # Val(prevHeap, b)

\* C8 amended: Rebalance may overwrite nodes other handles reference, and
\* every handle has the same Value() and Length() after it as before.
C8_RebalanceKeepsAliases ==
    last.op = "Rebalance" =>
        \A b \in ropes :
            /\ Val(heap, b) = Val(prevHeap, b)
            /\ Length(heap, b) = Length(prevHeap, b)

\* A Rebalance of one handle that overwrote a node of another handle's tree.
C8_Witness ==
    /\ last.op = "Rebalance" /\ ~panicked
    /\ \E b \in ropes \ {last.rope} : Overwritten \cap Reach(prevHeap, b) # {}

\* C9: in every rope the caller holds, a Leaf is no longer than SplitLength
\* and an Internal node is no shorter than JoinLength.
C9_Thresholds ==
    \A n \in Live :
        IF heap[n].value # Nil
        THEN Len(heap[n].value[1]) <= settings.SplitLength
        ELSE heap[n].length >= settings.JoinLength

\* A Remove that left an Internal node of exactly JoinLength over an untouched
\* subtree of its receiver.
C9_Witness ==
    /\ last.op = "Remove" /\ ~panicked
    /\ heap[last.res].value = Nil
    /\ heap[last.res].length = settings.JoinLength
    /\ last.res # last.rope
    /\ Reach(heap, last.res) \cap Reach(heap, last.rope) # {}

\* C10: in every rope the caller holds, a Leaf's length is the size of its
\* buffer and an Internal node's length is the sum of its children's, and
\* Length() is the number of elements of Value().
C10_LengthExact ==
    /\ \A n \in Live :
          IF heap[n].value # Nil
          THEN heap[n].length = Len(heap[n].value[1])
          ELSE heap[n].length = heap[heap[n].left].length + heap[heap[n].right].length
    /\ \A r \in ropes : Value(heap, r).ok /\ Length(heap, r) = Len(Val(heap, r))

\* A Remove from an Internal node that returned a shorter Internal node with
\* another rebuilt Internal node below it: lengths recomputed on two levels.
C10_Witness ==
    /\ last.op = "Remove" /\ ~panicked
    /\ prevHeap[last.rope].value = Nil
    /\ heap[last.res].value = Nil
    /\ heap[last.res].length < prevHeap[last.rope].length
    /\ \E n \in Live : n # last.res /\ heap[n].value = Nil /\ n > Len(prevHeap)
====
